---- MODULE Spec2Model ----
(***************************************************************************)
(* Candle aggregation and polling lifecycle of the RIT charting programs:  *)
(*   charting_flask/app.py         (variant "app")                         *)
(*   charting_flask/app_v2.py      (variant "app_v2")                      *)
(*   RIT_Price_Plotting.py         (variant "script")                      *)
(*   RIT_Price_Plotting_v2.py      (variant "script_v2")                   *)
(*                                                                         *)
(* Time is counted in quarter seconds, so 0.5 s is 2 and 10 s is 40.       *)
(* Prices are integers (the floats of the feed scaled to a fixed unit).    *)
(* A Python value that may be None is a sequence of length at most one:    *)
(* None is <<>> and a value x is <<x>>.                                    *)
(* A Python str that the code inspects (status) is a sequence of           *)
(* one-character strings; headlines, which are only stored, are strings.   *)
(***************************************************************************)
EXTENDS Integers, Sequences, FiniteSets, TLC

-----------------------------------------------------------------------------
(* Configuration of the programs *)

TICK_LIMIT == 1800
CASE_POLL_INTERVAL == 2
NEWS_POLL_INTERVAL == 16
NEWS_POLL_INTERVAL_V2 == 4
HIST_POLL_INTERVAL == 2
INTERVAL_SEC == 40
DEFAULT_CANDLE_TICKS == 10

(* time.time() when the module is imported; far larger than any interval *)
Epoch == 100

-----------------------------------------------------------------------------
(* Bounds of the model *)

(* How many /chart.png requests, or loop iterations, a run follows *)
MaxCalls == 3

(* Rows given to build_candles_from_history: how many, up to which tick, *)
(* and up to which granularity                                            *)
MaxRows == 3
MaxTick == 4
MaxGranularity == 3

(* Up to which multiple of a granularity the candles are built again *)
MaxMultiple == 2

-----------------------------------------------------------------------------
(* Python values *)

None == <<>>
Some(x) == <<x>>

(* Faulty variant of Max: the smaller operand *)
Max_Smaller(a, b) == IF a <= b THEN a ELSE b

Max(a, b) == IF a >= b THEN a ELSE b

(* Faulty variant of Min: the larger operand *)
Min_Larger(a, b) == IF a >= b THEN a ELSE b

Min(a, b) == IF a <= b THEN a ELSE b

(* Faulty variant of Get: the default even when the key is there *)
Get_Default(d, k, default) == default

(* dict.get(k, default) *)
Get(d, k, default) == IF k \in DOMAIN d THEN d[k] ELSE default

UpperLetters ==
  <<"A","B","C","D","E","F","G","H","I","J","K","L","M",
    "N","O","P","Q","R","S","T","U","V","W","X","Y","Z">>
LowerLetters ==
  <<"a","b","c","d","e","f","g","h","i","j","k","l","m",
    "n","o","p","q","r","s","t","u","v","w","x","y","z">>

(* The lower-case letter of each upper-case letter *)
ToLower ==
  [c \in {UpperLetters[i] : i \in DOMAIN UpperLetters} |->
     LowerLetters[CHOOSE i \in DOMAIN UpperLetters : UpperLetters[i] = c]]

LowerChar(c) == IF c \in DOMAIN ToLower THEN ToLower[c] ELSE c

(* str.lower() *)
lower(s) == [i \in DOMAIN s |-> LowerChar(s[i])]

StrActive == <<"a","c","t","i","v","e">>
StrRunning == <<"r","u","n","n","i","n","g">>
StrUnknown == <<"u","n","k","n","o","w","n">>
StrACTIVE == <<"A","C","T","I","V","E">>
StrRunningCap == <<"R","u","n","n","i","n","g">>
StrSTOPPED == <<"S","T","O","P","P","E","D">>

(* Faulty variant of CaseDone: the status is compared without lower() *)
CaseDone_CaseSensitive(tk, st) == tk >= TICK_LIMIT \/ st \notin {StrActive, StrRunning}

(* tick >= TICK_LIMIT or status.lower() not in ("active", "running") *)
CaseDone(tk, st) == tk >= TICK_LIMIT \/ lower(st) \notin {StrActive, StrRunning}

-----------------------------------------------------------------------------
(* What the server may answer *)

(* The answers to choose from: a feed that is not polled answers nothing *)
Asked(polled, responses, none) == IF polled THEN responses ELSE {none}

CaseOk(t, s) == [ok |-> TRUE, tick |-> t, status |-> s]
CaseFailure == [ok |-> FALSE, tick |-> 0, status |-> <<>>]
CaseResponses ==
  { CaseFailure,
    CaseOk(TICK_LIMIT - 1, StrACTIVE),
    CaseOk(TICK_LIMIT - 1, StrRunningCap),
    CaseOk(TICK_LIMIT - 1, StrSTOPPED),
    CaseOk(TICK_LIMIT, StrActive) }

Prices == {9, 12}
PriceFailure == [ok |-> FALSE, last |-> None]
PriceResponses ==
  {PriceFailure} \cup {[ok |-> TRUE, last |-> p] : p \in {None} \cup {Some(q) : q \in Prices}}

Headline(h) == [headline |-> Some(h)]
NewsFailure == [kind |-> "raise", items |-> <<>>]
NewsResponses ==
  { NewsFailure,
    [kind |-> "list", items |-> <<Headline("n1")>>],
    [kind |-> "list", items |-> <<Headline("n2"), Headline("n1")>>] }

-----------------------------------------------------------------------------
(* State *)

VARIABLES
  variant,            \* which program runs
  calls,              \* history variable: calls or iterations made so far
  clock,              \* the last reading of time.time()
  t0,                 \* start of the live candle axis
  tick, status, finished,
  price,
  current_news, previous_news,
  last_news_poll, last_case_poll, last_hist_poll,
  candles, current_candle,      \* live series (app.py and the scripts)
  history_cache,                \* app_v2: key -> entry
  running,                      \* scripts: the while loop has not stopped
  current_news_text, previous_news_text,   \* scripts: headline texts of the figure
  arg_rows, arg_candle_ticks, ret_candles,   \* one call of build_candles_from_history
  arg_k, ret_coarse, ret_refolded,   \* the candles built again at arg_k * arg_candle_ticks
  arg_data, arg_ascending, ret_ascending,   \* one answer of the source in two orders
  ret_rows,           \* what fetch_history_rows returned for arg_data
  pos,                 \* app.py served by threads: where each request is
  seen,               \* app.py served by threads: the candles make_figure read last
  commits,            \* history variable: the candle lists after each whole sample
  visited,            \* history variable: the buckets the live series took a sample in
  last_good_news,     \* history variable: the headlines of the last successful news poll
  last_call,          \* history variable: what the last call or iteration did
  last_attempt,       \* history variable: time of the last poll attempt per feed
  fetched_when_finished   \* history variable: keys fetched by a call that began finished

vars ==
  <<variant, calls, clock, t0, tick, status, finished, price, current_news, previous_news,
    last_news_poll, last_case_poll, last_hist_poll, candles, current_candle,
    history_cache, running, current_news_text, previous_news_text,
    arg_rows, arg_candle_ticks, ret_candles, arg_k, ret_coarse, ret_refolded,
    arg_data, arg_ascending, ret_ascending, ret_rows, visited, pos, seen, commits,
    last_good_news, last_call, last_attempt, fetched_when_finished>>

(* The requests that may be in progress at once, and their state *)
Requests == {1, 2}

threadVars == <<pos, seen, commits>>

(* What a call of the history functions on their own reads and returns *)
buildVars ==
  <<arg_rows, arg_candle_ticks, ret_candles, arg_k, ret_coarse, ret_refolded,
    arg_data, arg_ascending, ret_ascending, ret_rows>>

NoCall ==
  [case |-> "skip", price |-> "skip", news |-> "skip", hist |-> "skip",
   fin_before |-> FALSE, key |-> None, raised |-> FALSE,
   hist_resp |-> None, figure |-> None]

NoAttempt == [case |-> -1, news |-> -1, hist |-> -1]

(* The module-level assignments of app.py 101-121 and app_v2.py 218-229 *)
InitGlobals ==
  /\ calls = 0
  /\ clock = Epoch
  /\ t0 = Epoch
  /\ tick = 0
  /\ status = StrUnknown
  /\ finished = FALSE
  /\ price = Some(0)
  /\ current_news = ""
  /\ previous_news = ""
  /\ last_news_poll = 0
  /\ last_case_poll = 0
  /\ last_hist_poll = 0
  /\ candles = <<>>
  /\ current_candle = None
  /\ history_cache = <<>>
  /\ running = TRUE
  /\ current_news_text = ""
  /\ previous_news_text = ""
  /\ ret_candles = None
  /\ ret_coarse = None
  /\ ret_refolded = None
  /\ ret_ascending = None
  /\ ret_rows = None
  /\ pos = [r \in Requests |-> "idle"]
  /\ seen = None
  /\ commits = {<<>>}
  /\ visited = {}
  /\ last_good_news = <<"", "">>
  /\ last_call = NoCall
  /\ last_attempt = NoAttempt
  /\ fetched_when_finished = {}

(* No call of build_candles_from_history on its own is followed *)
NoBuildCall == arg_rows = <<>> /\ arg_candle_ticks = DEFAULT_CANDLE_TICKS

(* The history functions are not called on an answer of the source, *)
(* and the candles are not built again                              *)
NoOtherCall == arg_k = 1 /\ arg_data = <<>> /\ arg_ascending = <<>>

-----------------------------------------------------------------------------
(* News *)

(* app.py get_news_headlines: (None, None) on error, else (cur, prev) *)
get_news_headlines(resp) ==
  IF resp.kind = "raise" THEN <<None, None>>
  ELSE IF resp.kind = "list" THEN
    << IF Len(resp.items) > 0 THEN Get(resp.items[1], "headline", Some("")) ELSE Some(""),
       IF Len(resp.items) > 1 THEN Get(resp.items[2], "headline", Some("")) ELSE Some("") >>
  ELSE IF resp.kind = "dict" THEN
    << Get(resp.items[1], "headline", Some("")), Some("") >>
  ELSE << Some("str(data)"), Some("") >>

(* x or "" *)
OrEmpty(x) == IF x = None \/ x = Some("") THEN Some("") ELSE x

(* Faulty variant of get_news_headlines_v2: an error yields empty headlines *)
get_news_headlines_v2_Blank(resp) ==
  IF resp.kind = "raise" THEN <<Some(""), Some("")>>
  ELSE IF resp.kind = "list" THEN
    << IF Len(resp.items) > 0 THEN OrEmpty(Get(resp.items[1], "headline", Some(""))) ELSE Some(""),
       IF Len(resp.items) > 1 THEN OrEmpty(Get(resp.items[2], "headline", Some(""))) ELSE Some("") >>
  ELSE IF resp.kind = "dict" THEN
    << OrEmpty(Get(resp.items[1], "headline", Some(""))), Some("") >>
  ELSE << Some("str(data)"), Some("") >>

(* app_v2.py get_news_headlines: as above, with a null headline read as "" *)
get_news_headlines_v2(resp) ==
  IF resp.kind = "raise" THEN <<None, None>>
  ELSE IF resp.kind = "list" THEN
    << IF Len(resp.items) > 0 THEN OrEmpty(Get(resp.items[1], "headline", Some(""))) ELSE Some(""),
       IF Len(resp.items) > 1 THEN OrEmpty(Get(resp.items[2], "headline", Some(""))) ELSE Some("") >>
  ELSE IF resp.kind = "dict" THEN
    << OrEmpty(Get(resp.items[1], "headline", Some(""))), Some("") >>
  ELSE << Some("str(data)"), Some("") >>

-----------------------------------------------------------------------------
(* Live candles (app.py and the scripts) *)

(* max / min of the code raise TypeError when an operand is None *)
Comparable(a, b) == a # None /\ b # None

(* Faulty variant of IngestLive: a sample of the current bucket starts the *)
(* candle of that bucket again                                            *)
IngestLive_Restart(cs, cur, bucket, p) ==
  LET c == [bucket |-> bucket, open |-> p, high |-> p, low |-> p, close |-> p]
  IN  [candles |-> IF cur = None \/ bucket # cur[1].bucket THEN Append(cs, c)
                   ELSE [cs EXCEPT ![Len(cs)] = c],
       current_candle |-> Some(c), raised |-> FALSE]

(* Faulty variant of CaseAfterPoll: without a poll the tick is counted on *)
CaseAfterPoll_Counting(polled, caseR) ==
  IF polled /\ caseR.ok THEN [tick |-> caseR.tick, status |-> caseR.status]
  ELSE [tick |-> tick + 1, status |-> status]

(* tick, status = get_tick_status() inside try, in a call that polls /case *)
(* (app.py 133-142, app_v2.py 239-246): the old values when it raises     *)
CaseAfterPoll(polled, caseR) ==
  IF polled /\ caseR.ok THEN [tick |-> caseR.tick, status |-> caseR.status]
  ELSE [tick |-> tick, status |-> status]

(* Lines 167-181 of app.py: the series and current_candle after one sample, *)
(* and whether the max/min of the update branch raised.                     *)
IngestLive(cs, cur, bucket, p) ==
  IF cur = None \/ bucket # cur[1].bucket
  THEN LET c == [bucket |-> bucket, open |-> p, high |-> p, low |-> p, close |-> p]
       IN  [candles |-> Append(cs, c), current_candle |-> Some(c), raised |-> FALSE]
  ELSE LET c0 == cur[1]
           n  == Len(cs)
       IN  IF ~Comparable(c0.high, p)
           THEN [candles |-> cs, current_candle |-> cur, raised |-> TRUE]
           ELSE LET c1 == [c0 EXCEPT !.high = Some(Max(c0.high[1], p[1]))]
                IN  IF ~Comparable(c1.low, p)
                    THEN [candles |-> [cs EXCEPT ![n] = c1],
                          current_candle |-> Some(c1), raised |-> TRUE]
                    ELSE LET c2 == [c1 EXCEPT !.low = Some(Min(c1.low[1], p[1])),
                                              !.close = p]
                         IN  [candles |-> [cs EXCEPT ![n] = c2],
                              current_candle |-> Some(c2), raised |-> FALSE]

-----------------------------------------------------------------------------
(* charting_flask/app.py *)

StepsApp == {1, INTERVAL_SEC}

(* Line 132 and 134 / 156: which polls a call at time now makes *)
PollsCase(now) == ~finished /\ now - last_case_poll >= CASE_POLL_INTERVAL
PollsNews(now) == ~finished /\ now - last_news_poll >= NEWS_POLL_INTERVAL

update_state(now, caseR, priceR, newsR) ==
  LET elapsed   == now - t0
      pollCase  == PollsCase(now)
      caseOk    == pollCase /\ caseR.ok
      tick1     == CaseAfterPoll(pollCase, caseR).tick
      status1   == CaseAfterPoll(pollCase, caseR).status
      fin1      == finished \/ (pollCase /\ CaseDone(tick1, status1))
      pollPrice == ~finished
      price1    == IF pollPrice /\ priceR.ok THEN priceR.last ELSE price
      pollNews  == PollsNews(now)
      hl        == get_news_headlines(newsR)
      bucket    == elapsed \div INTERVAL_SEC
      live      == IngestLive(candles, current_candle, bucket, price1)
  IN  /\ clock' = now
      /\ tick' = tick1
      /\ status' = status1
      /\ last_case_poll' = IF caseOk THEN now ELSE last_case_poll
      /\ finished' = fin1
      /\ price' = price1
      /\ current_news' = IF pollNews /\ hl[1] # None THEN hl[1][1] ELSE current_news
      /\ previous_news' = IF pollNews /\ hl[2] # None THEN hl[2][1] ELSE previous_news
      /\ last_news_poll' = IF pollNews THEN now ELSE last_news_poll
      /\ candles' = IF finished THEN candles ELSE live.candles
      /\ current_candle' = IF finished THEN current_candle ELSE live.current_candle
      /\ last_call' =
           [case  |-> IF ~pollCase THEN "skip" ELSE IF caseR.ok THEN "ok" ELSE "fail",
            price |-> IF ~pollPrice THEN "skip" ELSE IF priceR.ok THEN "ok" ELSE "fail",
            news  |-> IF ~pollNews THEN "skip"
                      ELSE IF newsR.kind = "raise" THEN "fail" ELSE "ok",
            hist  |-> "skip",
            fin_before |-> finished,
            key |-> None,
            raised |-> ~finished /\ live.raised,
            hist_resp |-> None,
            figure |-> None]
      /\ visited' = IF finished THEN visited ELSE visited \cup {bucket}
      /\ last_attempt' =
           [last_attempt EXCEPT
              !.case = IF pollCase THEN now ELSE @,
              !.news = IF pollNews THEN now ELSE @]
      /\ last_good_news' =
           IF pollNews /\ newsR.kind # "raise" THEN <<current_news', previous_news'>>
           ELSE last_good_news
      /\ UNCHANGED <<variant, t0, last_hist_poll, history_cache, running,
                     current_news_text, previous_news_text, fetched_when_finished,
                     buildVars, threadVars>>

AppCall ==
  /\ variant = "app"
  /\ calls < MaxCalls
  /\ calls' = calls + 1
  /\ \E d \in StepsApp :
       /\ \E caseR \in Asked(PollsCase(clock + d), CaseResponses, CaseFailure),
             priceR \in Asked(~finished, PriceResponses, PriceFailure),
             newsR \in Asked(PollsNews(clock + d), NewsResponses, NewsFailure) :
            update_state(clock + d, caseR, priceR, newsR)

-----------------------------------------------------------------------------
(* charting_flask/app.py with /chart.png requests served by threads: the *)
(* statements of update_state that write a candle, one at a time, and    *)
(* make_figure of another request in between                             *)

(* Lines 129-176 of a request: the polls, and the candle of a new bucket; *)
(* in the current bucket the request goes on to lines 179-181             *)
EnterUpdate(r, now, caseR, priceR, newsR) ==
  LET pollCase  == PollsCase(now)
      tick1     == CaseAfterPoll(pollCase, caseR).tick
      status1   == CaseAfterPoll(pollCase, caseR).status
      price1    == IF ~finished /\ priceR.ok THEN priceR.last ELSE price
      pollNews  == PollsNews(now)
      hl        == get_news_headlines(newsR)
      bucket    == (now - t0) \div INTERVAL_SEC
      opens     == current_candle = None \/ bucket # current_candle[1].bucket
      c         == [bucket |-> bucket, open |-> price1, high |-> price1,
                    low |-> price1, close |-> price1]
  IN  /\ clock' = now
      /\ tick' = tick1
      /\ status' = status1
      /\ last_case_poll' = IF pollCase /\ caseR.ok THEN now ELSE last_case_poll
      /\ finished' = (finished \/ (pollCase /\ CaseDone(tick1, status1)))
      /\ price' = price1
      /\ current_news' = IF pollNews /\ hl[1] # None THEN hl[1][1] ELSE current_news
      /\ previous_news' = IF pollNews /\ hl[2] # None THEN hl[2][1] ELSE previous_news
      /\ last_news_poll' = IF pollNews THEN now ELSE last_news_poll
      /\ candles' = IF ~finished /\ opens THEN Append(candles, c) ELSE candles
      /\ current_candle' = IF ~finished /\ opens THEN Some(c) ELSE current_candle
      /\ commits' = IF ~finished /\ opens THEN commits \cup {candles'} ELSE commits
      /\ visited' = IF finished THEN visited ELSE visited \cup {bucket}
      /\ pos' = [pos EXCEPT ![r] = IF finished \/ opens THEN "figure" ELSE "high"]
      /\ UNCHANGED <<variant, t0, last_hist_poll, history_cache, running,
                     current_news_text, previous_news_text, fetched_when_finished,
                     seen, last_call, last_attempt, last_good_news, buildVars>>

(* update_state() of chart_png, line 305, entered by request r *)
Enter(r) ==
  /\ variant = "app_threads"
  /\ pos[r] = "idle"
  /\ calls < MaxCalls
  /\ calls' = calls + 1
  /\ \E d \in StepsApp :
       \E caseR \in Asked(PollsCase(clock + d), CaseResponses, CaseFailure),
          priceR \in Asked(~finished, PriceResponses, PriceFailure),
          newsR \in Asked(PollsNews(clock + d), NewsResponses, NewsFailure) :
         EnterUpdate(r, clock + d, caseR, priceR, newsR)

(* The candles after current_candle, their last element, has become c *)
WriteCurrent(c) ==
  /\ candles' = [candles EXCEPT ![Len(candles)] = c]
  /\ current_candle' = Some(c)

(* What a statement of a request leaves alone *)
UnchangedByStatement ==
  UNCHANGED <<variant, calls, clock, t0, tick, status, finished, price, current_news,
              previous_news, last_news_poll, last_case_poll, last_hist_poll,
              history_cache, running, current_news_text, previous_news_text,
              visited, seen, last_good_news, last_call, last_attempt,
              fetched_when_finished, buildVars>>

(* Line 179: current_candle["high"] = max(current_candle["high"], price); *)
(* max raises TypeError on None, which ends the request                   *)
SetHigh(r) ==
  /\ variant = "app_threads"
  /\ pos[r] = "high"
  /\ IF Comparable(current_candle[1].high, price)
     THEN /\ WriteCurrent([current_candle[1] EXCEPT
                             !.high = Some(Max(current_candle[1].high[1], price[1]))])
          /\ pos' = [pos EXCEPT ![r] = "low"]
     ELSE /\ UNCHANGED <<candles, current_candle>>
          /\ pos' = [pos EXCEPT ![r] = "idle"]
  /\ UNCHANGED commits
  /\ UnchangedByStatement

(* Line 180: current_candle["low"] = min(current_candle["low"], price) *)
SetLow(r) ==
  /\ variant = "app_threads"
  /\ pos[r] = "low"
  /\ IF Comparable(current_candle[1].low, price)
     THEN /\ WriteCurrent([current_candle[1] EXCEPT
                             !.low = Some(Min(current_candle[1].low[1], price[1]))])
          /\ pos' = [pos EXCEPT ![r] = "close"]
     ELSE /\ UNCHANGED <<candles, current_candle>>
          /\ pos' = [pos EXCEPT ![r] = "idle"]
  /\ UNCHANGED commits
  /\ UnchangedByStatement

(* Line 181: current_candle["close"] = price; the sample is applied whole *)
SetClose(r) ==
  /\ variant = "app_threads"
  /\ pos[r] = "close"
  /\ WriteCurrent([current_candle[1] EXCEPT !.close = price])
  /\ pos' = [pos EXCEPT ![r] = "figure"]
  /\ commits' = commits \cup {candles'}
  /\ UnchangedByStatement

(* make_figure() of chart_png, line 307: the candles it draws (224-235) *)
Figure(r) ==
  /\ variant = "app_threads"
  /\ pos[r] = "figure"
  /\ seen' = Some(candles)
  /\ pos' = [pos EXCEPT ![r] = "idle"]
  /\ UNCHANGED <<variant, calls, clock, t0, tick, status, finished, price, current_news,
                 previous_news, last_news_poll, last_case_poll, last_hist_poll,
                 candles, current_candle, history_cache, running, current_news_text,
                 previous_news_text, visited, commits, last_good_news, last_call,
                 last_attempt, fetched_when_finished, buildVars>>

InitThreads == variant = "app_threads" /\ InitGlobals /\ NoBuildCall /\ NoOtherCall

NextThreads ==
  \E r \in Requests : Enter(r) \/ SetHigh(r) \/ SetLow(r) \/ SetClose(r) \/ Figure(r)

SpecThreads == InitThreads /\ [][NextThreads]_vars

-----------------------------------------------------------------------------
(* History rows as the server sends them (app_v2.py) *)

(* A JSON value of a raw row: a number, null, or a string that is no number *)
Num(n) == [t |-> "num", v |-> n]
Null == [t |-> "none", v |-> 0]
Junk == [t |-> "str", v |-> 0]

(* int(x) / float(x) succeed *)
Parses(x) == x.t = "num"

(* A raw row: a JSON object d, or some other JSON value *)
Obj(d) == [isdict |-> TRUE, d |-> d]
NotObj == [isdict |-> FALSE, d |-> <<>>]

(* rows.sort(key=lambda x: x["tick"]): a stable insertion sort *)
RECURSIVE InsertByTick(_, _)
InsertByTick(sorted, r) ==
  IF sorted = <<>> THEN <<r>>
  ELSE IF sorted[Len(sorted)].tick <= r.tick THEN Append(sorted, r)
  ELSE Append(InsertByTick(SubSeq(sorted, 1, Len(sorted) - 1), r), sorted[Len(sorted)])

(* Faulty variant of SortByTick: the rows in the order received *)
SortByTick_Unsorted(rows) == rows

RECURSIVE SortByTick(_)
SortByTick(rows) ==
  IF rows = <<>> THEN <<>>
  ELSE InsertByTick(SortByTick(SubSeq(rows, 1, Len(rows) - 1)), rows[Len(rows)])

(* Lines 131-164: one raw row normalised; <<>> when the row is skipped *)
NormaliseRow(row) ==
  IF ~row.isdict THEN <<>>
  ELSE
    LET d  == row.d
        t0r == Get(d, "tick", Null)
        t  == IF t0r = Null THEN Get(d, "timestamp", Get(d, "time", Null)) ELSE t0r
    IN  IF ~Parses(t) THEN <<>>
        ELSE IF {"open", "high", "low", "close"} \subseteq DOMAIN d
        THEN IF Parses(d.open) /\ Parses(d.high) /\ Parses(d.low) /\ Parses(d.close)
             THEN << [tick |-> t.v, open |-> d.open.v, high |-> d.high.v,
                      low |-> d.low.v, close |-> d.close.v] >>
             ELSE <<>>
        ELSE LET p == Get(d, "close", Get(d, "last", Get(d, "price", Null)))
             IN  IF p = Null THEN <<>>
                 ELSE IF Parses(p) THEN << [tick |-> t.v, price |-> p.v] >>
                 ELSE <<>>

(* Faulty variant of NormaliseRows: the first row that is skipped ends the loop *)
RECURSIVE NormaliseRows_Abort(_)
NormaliseRows_Abort(data) ==
  IF data = <<>> \/ NormaliseRow(Head(data)) = <<>> THEN <<>>
  ELSE NormaliseRow(Head(data)) \o NormaliseRows_Abort(Tail(data))

RECURSIVE NormaliseRows(_)
NormaliseRows(data) ==
  IF data = <<>> THEN <<>>
  ELSE NormaliseRow(Head(data)) \o NormaliseRows(Tail(data))

(* Lines 120-128: the list inside the response, if there is one *)
Unwrap(resp) ==
  IF resp.kind = "list" THEN Some(resp.data)
  ELSE IF resp.kind = "dict" /\ resp.field \in {"history", "data"} THEN Some(resp.data)
  ELSE None

(* fetch_history_rows after the request succeeded *)
fetch_history_rows(resp) ==
  IF Unwrap(resp) = None THEN <<>>
  ELSE SortByTick(NormaliseRows(Unwrap(resp)[1]))

(* row_close *)
RowClose(r) ==
  IF "close" \in DOMAIN r THEN Some(r.close)
  ELSE IF "price" \in DOMAIN r THEN Some(r.price)
  ELSE None

(* Lines 181-213: the loop from row i on, cur being the last candle of cs *)
RECURSIVE BuildFrom(_, _, _, _)
BuildFrom(rows, i, candle_ticks, cs) ==
  IF i > Len(rows) THEN cs
  ELSE
    LET r == rows[i]
        price_close == RowClose(r)
    IN  IF price_close = None THEN BuildFrom(rows, i + 1, candle_ticks, cs)
        ELSE
          LET pc == price_close[1]
              bucket == r.tick \div candle_ticks
              start_tick == bucket * candle_ticks
              n == Len(cs)
          IN  IF n = 0 \/ bucket # cs[n].bucket
              THEN BuildFrom(rows, i + 1, candle_ticks,
                     Append(cs, [bucket |-> bucket, start_tick |-> start_tick,
                                 open  |-> Get(r, "open", pc),
                                 high  |-> Get(r, "high", pc),
                                 low   |-> Get(r, "low", pc),
                                 close |-> Get(r, "close", pc)]))
              ELSE BuildFrom(rows, i + 1, candle_ticks,
                     [cs EXCEPT ![n] =
                        [@ EXCEPT !.high  = Max(@, Get(r, "high", pc)),
                                  !.low   = Min(@, Get(r, "low", pc)),
                                  !.close = Get(r, "close", pc)]])

build_candles_from_history(rows, candle_ticks) == BuildFrom(rows, 1, candle_ticks, <<>>)

-----------------------------------------------------------------------------
(* charting_flask/app_v2.py *)

Tickers == {"CRZY"}
CandleTicks == {5, DEFAULT_CANDLE_TICKS}

Scalar(t, p) == Obj([tick |-> Num(t), price |-> Num(p)])

HistFailure == [kind |-> "raise", field |-> "", data |-> <<>>]
HistoryResponses ==
  { HistFailure,
    [kind |-> "list", field |-> "", data |-> <<>>],
    [kind |-> "list", field |-> "",
     data |-> <<NotObj, Scalar(3, 12), Obj([tick |-> Junk, price |-> Num(9)]),
                Obj([tick |-> Num(4), open |-> Num(12), high |-> Num(13),
                     low |-> Num(11), close |-> Num(11)]),
                Scalar(0, 10), Obj([time |-> Num(7), last |-> Null])>>],
    [kind |-> "dict", field |-> "history",
     data |-> <<Scalar(11, 15), Scalar(0, 10), Scalar(3, 12), Scalar(9, 9)>>] }

EmptyEntry == [candles |-> <<>>, last_price |-> 0, last_tick_seen |-> -1]

(* Faulty variant of EntryFrom: last_price and last_tick_seen of the first row *)
EntryFrom_FirstRow(resp, candle_ticks) ==
  LET rows == fetch_history_rows(resp)
  IN  [candles |-> build_candles_from_history(rows, candle_ticks),
       last_price |-> IF rows # <<>> THEN Get(rows[1], "close", Get(rows[1], "price", 0))
                      ELSE 0,
       last_tick_seen |-> IF rows # <<>> THEN rows[1].tick ELSE -1]

(* Lines 266-278: the entry built from a response that did not raise *)
EntryFrom(resp, candle_ticks) ==
  LET rows == fetch_history_rows(resp)
      last == rows[Len(rows)]
  IN  [candles |-> build_candles_from_history(rows, candle_ticks),
       last_price |-> IF rows # <<>> THEN Get(last, "close", Get(last, "price", 0)) ELSE 0,
       last_tick_seen |-> IF rows # <<>> THEN last.tick ELSE -1]

(* The entries the answers of the server lead to, computed once *)
EntryOf ==
  [resp \in HistoryResponses \ {HistFailure}, candle_ticks \in CandleTicks |->
     EntryFrom(resp, candle_ticks)]

StepsV2 == {1, NEWS_POLL_INTERVAL_V2}

(* Line 239 *)
PollsCaseV2(now) == now - last_case_poll >= CASE_POLL_INTERVAL

(* Faulty variant of FinishedAfterCase: finished is assigned the stop condition *)
FinishedAfterCase_Assigned(now, caseR) ==
  LET caseOk == PollsCaseV2(now) /\ caseR.ok
  IN  IF PollsCaseV2(now)
      THEN CaseDone(IF caseOk THEN caseR.tick ELSE tick,
                    IF caseOk THEN caseR.status ELSE status)
      ELSE finished

(* Lines 240-249: finished after the case section *)
FinishedAfterCase(now, caseR) ==
  LET caseOk == PollsCaseV2(now) /\ caseR.ok
  IN  finished \/ (PollsCaseV2(now) /\ CaseDone(IF caseOk THEN caseR.tick ELSE tick,
                                                 IF caseOk THEN caseR.status ELSE status))

(* Faulty variant of PollsNewsV2: the news poll is not gated on finished *)
PollsNewsV2_Ungated(now, caseR) == now - last_news_poll >= NEWS_POLL_INTERVAL_V2

(* Line 252 *)
PollsNewsV2(now, caseR) ==
  ~FinishedAfterCase(now, caseR) /\ now - last_news_poll >= NEWS_POLL_INTERVAL_V2

(* Faulty variant of WithKey: the entry of the key is emptied *)
WithKey_Reset(cache, key) ==
  [k \in DOMAIN cache \cup {key} |-> IF k = key THEN EmptyEntry ELSE cache[k]]

(* Lines 262-263 *)
WithKey(cache, key) ==
  IF key \in DOMAIN cache THEN cache
  ELSE [k \in DOMAIN cache \cup {key} |-> IF k = key THEN EmptyEntry ELSE cache[k]]

(* Faulty variant of StoreEntry: the new candles are added to the cached ones *)
StoreEntry_Merge(cache, key, entry) ==
  [cache EXCEPT ![key] = [entry EXCEPT !.candles = cache[key].candles \o @]]

(* Faulty variant of StoreEntry: the entry is stored under every key *)
StoreEntry_Everywhere(cache, key, entry) == [k \in DOMAIN cache |-> entry]

(* Lines 274-278: history_cache[key] = {...} *)
StoreEntry(cache, key, entry) == [cache EXCEPT ![key] = entry]

(* Lines 307-310 of make_figure: the candles and the last price it draws *)
make_figure(cache, ticker, candle_ticks) ==
  LET entry == Get(cache, <<ticker, candle_ticks>>, [candles |-> <<>>, last_price |-> 0])
  IN  [candles |-> entry.candles, last_price |-> entry.last_price]

(* Faulty variant of PollsHistV2: the history poll goes on after finished *)
PollsHistV2_Ungated(now, caseR, key) == now - last_hist_poll >= HIST_POLL_INTERVAL

(* Line 265 *)
PollsHistV2(now, caseR, key) ==
  /\ now - last_hist_poll >= HIST_POLL_INTERVAL
  /\ ~(FinishedAfterCase(now, caseR) /\ WithKey(history_cache, key)[key].candles # <<>>)

update_state_v2(now, ticker, candle_ticks, caseR, newsR, histR) ==
  LET pollCase == PollsCaseV2(now)
      caseOk   == pollCase /\ caseR.ok
      tick1    == CaseAfterPoll(pollCase, caseR).tick
      status1  == CaseAfterPoll(pollCase, caseR).status
      fin1     == FinishedAfterCase(now, caseR)
      pollNews == PollsNewsV2(now, caseR)
      hl       == get_news_headlines_v2(newsR)
      key      == <<ticker, candle_ticks>>
      cache1   == WithKey(history_cache, key)
      pollHist == PollsHistV2(now, caseR, key)
      histOk   == pollHist /\ histR.kind # "raise"
  IN  /\ clock' = now
      /\ tick' = tick1
      /\ status' = status1
      /\ last_case_poll' = IF caseOk THEN now ELSE last_case_poll
      /\ finished' = fin1
      /\ current_news' = IF pollNews /\ hl[1] # None THEN hl[1][1] ELSE current_news
      /\ previous_news' = IF pollNews /\ hl[2] # None THEN hl[2][1] ELSE previous_news
      /\ last_news_poll' = IF pollNews THEN now ELSE last_news_poll
      /\ history_cache' =
           IF histOk THEN StoreEntry(cache1, key, EntryOf[histR, candle_ticks])
           ELSE cache1
      /\ last_hist_poll' = IF pollHist THEN now ELSE last_hist_poll
      /\ last_call' =
           [case  |-> IF ~pollCase THEN "skip" ELSE IF caseR.ok THEN "ok" ELSE "fail",
            price |-> "skip",
            news  |-> IF ~pollNews THEN "skip"
                      ELSE IF newsR.kind = "raise" THEN "fail" ELSE "ok",
            hist  |-> IF ~pollHist THEN "skip"
                      ELSE IF histR.kind = "raise" THEN "fail" ELSE "ok",
            fin_before |-> finished,
            key |-> key,
            raised |-> FALSE,
            hist_resp |-> IF pollHist THEN Some(histR) ELSE None,
            figure |-> Some(make_figure(history_cache', ticker, candle_ticks))]
      /\ last_attempt' =
           [case |-> IF pollCase THEN now ELSE last_attempt.case,
            news |-> IF pollNews THEN now ELSE last_attempt.news,
            hist |-> IF pollHist THEN now ELSE last_attempt.hist]
      /\ fetched_when_finished' =
           IF pollHist /\ finished THEN fetched_when_finished \cup {key}
           ELSE fetched_when_finished
      /\ last_good_news' =
           IF pollNews /\ newsR.kind # "raise" THEN <<current_news', previous_news'>>
           ELSE last_good_news
      /\ UNCHANGED <<variant, t0, price, candles, current_candle, running,
                     current_news_text, previous_news_text, visited, buildVars, threadVars>>

V2Call ==
  /\ variant = "app_v2"
  /\ calls < MaxCalls
  /\ calls' = calls + 1
  /\ \E d \in StepsV2 :
       /\ \E ticker \in Tickers, candle_ticks \in CandleTicks,
             caseR \in Asked(PollsCaseV2(clock + d), CaseResponses, CaseFailure) :
            \E newsR \in Asked(PollsNewsV2(clock + d, caseR), NewsResponses, NewsFailure),
               histR \in Asked(PollsHistV2(clock + d, caseR, <<ticker, candle_ticks>>),
                               HistoryResponses, HistFailure) :
              update_state_v2(clock + d, ticker, candle_ticks, caseR, newsR, histR)

-----------------------------------------------------------------------------
(* The two Flask programs, each serving /chart.png requests one after another *)

Init == variant \in {"app", "app_v2"} /\ InitGlobals /\ NoBuildCall /\ NoOtherCall

Next == AppCall \/ V2Call

Spec == Init /\ [][Next]_vars

-----------------------------------------------------------------------------
(* RIT_Price_Plotting.py and RIT_Price_Plotting_v2.py: the while loop *)

(* str(x) of a headline value *)
Str(x) == IF x = None THEN "None" ELSE x[1]

HeadlineKeys == <<"headline", "title", "news", "text", "message">>

(* _extract_headline of a dict item: the first key of the list it holds *)
RECURSIVE ExtractFrom(_, _)
ExtractFrom(item, i) ==
  IF i > Len(HeadlineKeys) THEN "str(item)"
  ELSE IF HeadlineKeys[i] \in DOMAIN item THEN Str(item[HeadlineKeys[i]])
  ELSE ExtractFrom(item, i + 1)

_extract_headline(item) == ExtractFrom(item, 1)

(* RIT_Price_Plotting.py get_news_headlines: ("", "") on error *)
get_news_headlines_script(resp) ==
  IF resp.kind = "raise" THEN <<"", "">>
  ELSE IF resp.kind = "list" THEN
    << IF Len(resp.items) > 0 THEN _extract_headline(resp.items[1]) ELSE "",
       IF Len(resp.items) > 1 THEN _extract_headline(resp.items[2]) ELSE "" >>
  ELSE << _extract_headline(resp.items[1]), "" >>

(* Time between the time.time() readings of two iterations *)
StepsScript == {1, INTERVAL_SEC}

(* Faulty variant of LoopStops: a failed price request ends the loop too *)
LoopStops_OnPriceFailure(caseStop, priceR) == caseStop \/ ~priceR.ok

(* The breaks of the loop (RIT_Price_Plotting.py 153 and 160); a failed or *)
(* null price leads to continue (168, 173)                                 *)
LoopStops(caseStop, priceR) == caseStop

(* One iteration of the loop; with_news tells the two scripts apart *)
LoopIteration(now, caseR, priceR, newsR, with_news) ==
  LET tick1    == IF caseR.ok THEN caseR.tick ELSE tick
      status1  == IF caseR.ok THEN caseR.status ELSE status
      caseStop == ~caseR.ok \/ CaseDone(tick1, status1)
      pricePolled == ~caseStop
      stop     == LoopStops(caseStop, priceR)
      priceOk  == pricePolled /\ priceR.ok
      price1   == IF priceOk THEN priceR.last ELSE price
      ingest   == priceOk /\ price1 # None
      pollNews == ingest /\ with_news
      hl       == get_news_headlines_script(newsR)
      bucket   == (now - t0) \div INTERVAL_SEC
      live     == IngestLive(candles, current_candle, bucket, price1)
  IN  /\ tick' = tick1
      /\ status' = status1
      /\ running' = ~stop
      /\ price' = price1
      /\ current_news' = IF pollNews THEN hl[1] ELSE current_news
      /\ previous_news' = IF pollNews THEN hl[2] ELSE previous_news
      /\ clock' = now
      /\ candles' = IF ingest THEN live.candles ELSE candles
      /\ current_candle' = IF ingest THEN live.current_candle ELSE current_candle
      /\ current_news_text' = IF pollNews THEN hl[1] ELSE current_news_text
      /\ previous_news_text' = IF pollNews THEN hl[2] ELSE previous_news_text
      /\ last_good_news' =
           IF pollNews /\ newsR.kind # "raise" THEN hl ELSE last_good_news
      /\ last_call' =
           [case  |-> IF caseR.ok THEN "ok" ELSE "fail",
            price |-> IF ~pricePolled THEN "skip" ELSE IF priceR.ok THEN "ok" ELSE "fail",
            news  |-> IF ~pollNews THEN "skip"
                      ELSE IF newsR.kind = "raise" THEN "fail" ELSE "ok",
            hist  |-> "skip",
            fin_before |-> FALSE,
            key |-> None,
            raised |-> ingest /\ live.raised,
            hist_resp |-> None,
            figure |-> None]
      /\ visited' = IF ingest THEN visited \cup {bucket} ELSE visited
      /\ UNCHANGED <<variant, t0, finished, last_news_poll, last_case_poll,
                     last_hist_poll, history_cache, last_attempt, fetched_when_finished,
                     buildVars, threadVars>>

(* RIT_Price_Plotting.py lines 147-276 *)
main_loop ==
  /\ variant = "script"
  /\ running
  /\ calls < MaxCalls
  /\ calls' = calls + 1
  /\ \E d \in StepsScript, caseR \in CaseResponses :
       \E priceR \in Asked(caseR.ok /\ ~CaseDone(caseR.tick, caseR.status),
                           PriceResponses, PriceFailure) :
         \E newsR \in Asked(priceR.ok /\ priceR.last # None, NewsResponses, NewsFailure) :
           LoopIteration(clock + d, caseR, priceR, newsR, TRUE)

(* RIT_Price_Plotting_v2.py lines 101-217 *)
main_loop_v2 ==
  /\ variant = "script_v2"
  /\ running
  /\ calls < MaxCalls
  /\ calls' = calls + 1
  /\ \E d \in StepsScript, caseR \in CaseResponses :
       \E priceR \in Asked(caseR.ok /\ ~CaseDone(caseR.tick, caseR.status),
                           PriceResponses, PriceFailure) :
         LoopIteration(clock + d, caseR, priceR, NewsFailure, FALSE)

InitScript == variant \in {"script", "script_v2"} /\ InitGlobals /\ NoBuildCall /\ NoOtherCall

NextScript == main_loop \/ main_loop_v2

SpecScript == InitScript /\ [][NextScript]_vars

-----------------------------------------------------------------------------
(* build_candles_from_history called on its own *)

ScalarRows == [tick : 0..MaxTick, price : Prices]

IsSortedByTick(rows) ==
  \A i \in 1..(Len(rows) - 1) : rows[i].tick <= rows[i + 1].tick

SortedScalarRowLists ==
  {rows \in UNION {[1..n -> ScalarRows] : n \in 0..MaxRows} : IsSortedByTick(rows)}

(* The rows of the example: ticks 0, 3, 9, 11, 21 *)
ExampleRows ==
  << [tick |-> 0, price |-> 10], [tick |-> 3, price |-> 12], [tick |-> 9, price |-> 9],
     [tick |-> 11, price |-> 15], [tick |-> 21, price |-> 15] >>

InitBuild ==
  /\ variant = "build"
  /\ InitGlobals
  /\ NoOtherCall
  /\ \/ /\ arg_rows \in SortedScalarRowLists
        /\ arg_candle_ticks \in 1..MaxGranularity
     \/ /\ arg_rows = ExampleRows
        /\ arg_candle_ticks = DEFAULT_CANDLE_TICKS

BuildCall ==
  /\ variant = "build"
  /\ ret_candles = None
  /\ ret_candles' = Some(build_candles_from_history(arg_rows, arg_candle_ticks))
  /\ UNCHANGED <<variant, calls, clock, t0, tick, status, finished, price, current_news,
                 previous_news, last_news_poll, last_case_poll, last_hist_poll, candles,
                 current_candle, history_cache, running, current_news_text,
                 previous_news_text, arg_rows, arg_candle_ticks, arg_k, ret_coarse,
                 ret_refolded, arg_data, arg_ascending, ret_ascending, ret_rows, visited,
                 pos, seen, commits,
                 last_good_news, last_call, last_attempt, fetched_when_finished>>

NextBuild == BuildCall

SpecBuild == InitBuild /\ [][NextBuild]_vars

-----------------------------------------------------------------------------
(* The history functions on scalar and OHLC rows, and the live programs *)

(* Rows with open, high, low and close, as fetch_history_rows returns them, *)
(* each with low <= open <= high and low <= close <= high                   *)
OHLCRows ==
  {r \in [tick : 0..MaxTick, open : Prices, high : Prices, low : Prices, close : Prices] :
     r.low <= r.open /\ r.open <= r.high /\ r.low <= r.close /\ r.close <= r.high}

Rows == ScalarRows \cup OHLCRows

(* The lists of at most n rows in ascending tick order, each made of a *)
(* shorter one and a row that does not come before its last row        *)
RECURSIVE SortedRowListsUpTo(_)
SortedRowListsUpTo(n) ==
  IF n = 0 THEN {<<>>}
  ELSE LET shorter == SortedRowListsUpTo(n - 1)
       IN  shorter \cup
           UNION {{Append(rows, r) :
                     r \in {q \in Rows : rows = <<>> \/ rows[Len(rows)].tick <= q.tick}} :
                  rows \in {l \in shorter : Len(l) = n - 1}}

(* Candles read as OHLC rows at tick = start_tick *)
CandlesAsRows(cs) ==
  [i \in DOMAIN cs |->
     [tick |-> cs[i].start_tick, open |-> cs[i].open, high |-> cs[i].high,
      low |-> cs[i].low, close |-> cs[i].close]]

InitRows ==
  /\ variant = "build"
  /\ InitGlobals
  /\ arg_data = <<>>
  /\ arg_ascending = <<>>
  /\ arg_rows \in SortedRowListsUpTo(MaxRows)
  /\ arg_candle_ticks \in 1..MaxGranularity
  /\ arg_k \in 1..MaxMultiple

(* build_candles_from_history at arg_k times the granularity: on the rows, *)
(* and on the candles that BuildCall returned                             *)
RebuildCall ==
  /\ variant = "build"
  /\ ret_candles # None
  /\ ret_coarse = None
  /\ ret_coarse' = Some(build_candles_from_history(arg_rows, arg_k * arg_candle_ticks))
  /\ ret_refolded' =
       Some(build_candles_from_history(CandlesAsRows(ret_candles[1]),
                                       arg_k * arg_candle_ticks))
  /\ UNCHANGED <<variant, calls, clock, t0, tick, status, finished, price, current_news,
                 previous_news, last_news_poll, last_case_poll, last_hist_poll, candles,
                 current_candle, history_cache, running, current_news_text,
                 previous_news_text, arg_rows, arg_candle_ticks, ret_candles, arg_k,
                 arg_data, arg_ascending, ret_ascending, ret_rows, visited,
                 pos, seen, commits,
                 last_good_news, last_call, last_attempt, fetched_when_finished>>

(* The live programs: app.py and the two scripts *)
InitLive ==
  variant \in {"app", "script", "script_v2"} /\ InitGlobals /\ NoBuildCall /\ NoOtherCall

NextLive == AppCall \/ main_loop \/ main_loop_v2

SpecLive == InitLive /\ [][NextLive]_vars

InitCandles ==
  \/ InitLive
  \/ InitRows

NextCandles == AppCall \/ main_loop \/ main_loop_v2 \/ BuildCall \/ RebuildCall

SpecCandles == InitCandles /\ [][NextCandles]_vars

-----------------------------------------------------------------------------
(* fetch_history_rows and build_candles_from_history on one answer of the *)
(* source, given in two orders                                            *)

RawScalarRows == {Scalar(t, p) : t \in 0..MaxTick, p \in Prices}

(* The tick of a raw scalar row *)
RawTick(row) == row.d.tick.v

AscendingRawLists ==
  {data \in UNION {[1..n -> RawScalarRows] : n \in 0..MaxRows} :
     \A i \in 1..(Len(data) - 1) : RawTick(data[i]) <= RawTick(data[i + 1])}

(* The orders a source may return the rows of data in *)
Orders(data) ==
  {[i \in DOMAIN data |-> data[f[i]]] :
     f \in {g \in [DOMAIN data -> DOMAIN data] : \A i, j \in DOMAIN data : g[i] = g[j] => i = j}}

AsList(data) == [kind |-> "list", field |-> "", data |-> data]

InitReconcile ==
  /\ variant = "reconcile"
  /\ InitGlobals
  /\ arg_rows = <<>>
  /\ arg_k = 1
  /\ arg_candle_ticks \in 1..MaxGranularity
  /\ arg_ascending \in AscendingRawLists
  /\ arg_data \in Orders(arg_ascending)

(* Lines 267-268 on each of the two orders *)
ReconcileCall ==
  /\ variant = "reconcile"
  /\ ret_candles = None
  /\ ret_candles' =
       Some(build_candles_from_history(fetch_history_rows(AsList(arg_data)),
                                       arg_candle_ticks))
  /\ ret_ascending' =
       Some(build_candles_from_history(fetch_history_rows(AsList(arg_ascending)),
                                       arg_candle_ticks))
  /\ UNCHANGED <<variant, calls, clock, t0, tick, status, finished, price, current_news,
                 previous_news, last_news_poll, last_case_poll, last_hist_poll, candles,
                 current_candle, history_cache, running, current_news_text,
                 previous_news_text, arg_rows, arg_candle_ticks, arg_k, ret_coarse,
                 ret_refolded, arg_data, arg_ascending, ret_rows, visited,
                 pos, seen, commits,
                 last_good_news, last_call, last_attempt, fetched_when_finished>>

NextReconcile == ReconcileCall

SpecReconcile == InitReconcile /\ [][NextReconcile]_vars

-----------------------------------------------------------------------------
(* fetch_history_rows on answers with malformed rows and with aliases *)

PositionAliases == <<"tick", "timestamp", "time">>
PriceAliases == <<"close", "last", "price">>

Aliases ==
  {PositionAliases[i] : i \in DOMAIN PositionAliases}
    \cup {PriceAliases[i] : i \in DOMAIN PriceAliases}

(* The number a row carries under an alias, one per alias *)
AliasNumber ==
  [a \in Aliases |->
     IF a = "tick" THEN 1 ELSE IF a = "timestamp" THEN 2 ELSE IF a = "time" THEN 3
     ELSE IF a = "close" THEN 9 ELSE IF a = "last" THEN 10 ELSE 12]

(* Rows that carry, under each alias, nothing, a number, null, or a string *)
(* that is no number                                                       *)
AliasRows ==
  {Obj([a \in {k \in Aliases : c[k] # "absent"} |->
          IF c[a] = "num" THEN Num(AliasNumber[a])
          ELSE IF c[a] = "null" THEN Null ELSE Junk]) :
     c \in [Aliases -> {"absent", "num", "null", "junk"}]}

(* Rows of an answer with several rows: three that are well formed, and   *)
(* three that are no record, have no position, or have no price           *)
BatchRows ==
  { Scalar(0, 9), Scalar(3, 12),
    Obj([timestamp |-> Num(2), open |-> Num(9), high |-> Num(12),
         low |-> Num(9), close |-> Num(12)]),
    NotObj,
    Obj([tick |-> Junk, price |-> Num(9)]),
    Obj([tick |-> Num(2), last |-> Null]) }

InitFetch ==
  /\ variant = "fetch"
  /\ InitGlobals
  /\ NoBuildCall
  /\ arg_k = 1
  /\ arg_ascending = <<>>
  /\ arg_data \in UNION {[1..n -> BatchRows] : n \in 0..MaxRows}
                    \cup {<<row>> : row \in AliasRows}

(* Lines 118-167 on the answer arg_data *)
FetchCall ==
  /\ variant = "fetch"
  /\ ret_rows = None
  /\ ret_rows' = Some(fetch_history_rows(AsList(arg_data)))
  /\ UNCHANGED <<variant, calls, clock, t0, tick, status, finished, price, current_news,
                 previous_news, last_news_poll, last_case_poll, last_hist_poll, candles,
                 current_candle, history_cache, running, current_news_text,
                 previous_news_text, arg_rows, arg_candle_ticks, ret_candles, arg_k,
                 ret_coarse, ret_refolded, arg_data, arg_ascending, ret_ascending, visited,
                 pos, seen, commits,
                 last_good_news, last_call, last_attempt, fetched_when_finished>>

NextFetch == FetchCall

SpecFetch == InitFetch /\ [][NextFetch]_vars

-----------------------------------------------------------------------------
(* Properties of the Flask programs *)

(* s equals the lower-case word w when letter case is ignored *)
SameIgnoringCase(s, w) ==
  /\ Len(s) = Len(w)
  /\ \A i \in DOMAIN w :
       \E j \in DOMAIN LowerLetters :
         LowerLetters[j] = w[i] /\ s[i] \in {LowerLetters[j], UpperLetters[j]}

IsActiveOrRunning(s) == SameIgnoringCase(s, StrActive) \/ SameIgnoringCase(s, StrRunning)

(* C1: in app.py and app_v2.py, once finished is true it stays true: no    *)
(* update_state call sets it back to false, whatever the case poll says.   *)
C1_FinishedIsSticky == [][finished => finished']_vars

(* A call made when finished was already true polled /case, got an active *)
(* case below the tick limit, and finished is still true.                  *)
C1_Witness ==
  /\ finished
  /\ last_call.fin_before
  /\ last_call.case = "ok"
  /\ tick < TICK_LIMIT
  /\ IsActiveOrRunning(status)

(* C2: once a call has returned with finished = true, no later             *)
(* update_state call polls /case (get_tick_status is not invoked again).   *)
C2_NoCasePollAfterFinished == [][finished => last_call'.case = "skip"]_vars

(* C3: once a call has returned with finished = true, no later             *)
(* update_state call polls /news, and current_news and previous_news keep  *)
(* their values.                                                           *)
C3_NoNewsPollAfterFinished ==
  [][finished =>
       /\ last_call'.news = "skip"
       /\ current_news' = current_news
       /\ previous_news' = previous_news]_vars

(* app_v2 was called when finished, a full news interval after the last    *)
(* news poll, and the headlines polled earlier are still there.            *)
C3_Witness ==
  /\ variant = "app_v2"
  /\ finished
  /\ last_call.fin_before
  /\ clock - last_news_poll >= NEWS_POLL_INTERVAL_V2
  /\ current_news = "n2"
  /\ previous_news = "n1"

(* C4: when finished is false and the case poll of a call succeeds with    *)
(* (tick, status), finished is true after the call exactly when            *)
(* tick >= TICK_LIMIT or the status, ignoring letter case, is neither      *)
(* "active" nor "running"; tick 1800 finishes, tick 1799 with "ACTIVE" or  *)
(* "Running" does not.                                                     *)
C4_FinishedExactlyWhenCaseDone ==
  [][(~finished /\ last_call'.case = "ok") =>
       /\ finished' <=> (tick' >= TICK_LIMIT \/ ~IsActiveOrRunning(status'))
       /\ tick' = 1800 => finished'
       /\ (tick' = 1799 /\ status' \in {StrACTIVE, StrRunningCap}) => ~finished']_vars

(* A successful poll returned tick 1799 and status "Running": not finished *)
C4_Witness ==
  /\ last_call.case = "ok"
  /\ ~last_call.fin_before
  /\ tick = 1799
  /\ status = StrRunningCap
  /\ ~finished

(* C5: a case poll that raises leaves tick and status as they were and     *)
(* does not turn finished from false to true, in every reachable state,    *)
(* the startup state included.                                             *)
C5_FailedCasePollChangesNothing ==
  [][last_call'.case = "fail" =>
       /\ tick' = tick
       /\ status' = status
       /\ (~finished => ~finished')]_vars

(* C6: app_v2 attempts a poll of a feed only when at least the feed's      *)
(* interval has elapsed since the previous attempt of the same feed,       *)
(* whether that attempt succeeded or failed.                               *)
C6_PollOnlyAfterInterval ==
  [][variant = "app_v2" =>
       /\ (last_call'.case # "skip" /\ last_attempt.case # -1)
            => clock' - last_attempt.case >= CASE_POLL_INTERVAL
       /\ (last_call'.news # "skip" /\ last_attempt.news # -1)
            => clock' - last_attempt.news >= NEWS_POLL_INTERVAL_V2
       /\ (last_call'.hist # "skip" /\ last_attempt.hist # -1)
            => clock' - last_attempt.hist >= HIST_POLL_INTERVAL]_vars

(* C7: in app_v2, once finished is true, a key with a non-empty cached     *)
(* candle list is never fetched, and a key with none is fetched at most    *)
(* once more, whatever that fetch returned.                                *)
C7_AtMostOneFetchAfterFinished ==
  [][(variant = "app_v2" /\ finished /\ last_call'.hist # "skip") =>
       LET key == last_call'.key
       IN  /\ key \in DOMAIN history_cache => history_cache[key].candles = <<>>
           /\ key \notin fetched_when_finished]_vars

(* C8: a news poll that fails leaves current_news and previous_news as     *)
(* they were; they change only in a call whose news poll succeeded.        *)
C8_FailedNewsPollKeepsHeadlines ==
  [][/\ last_call'.news = "fail" =>
          (current_news' = current_news /\ previous_news' = previous_news)
     /\ (current_news' # current_news \/ previous_news' # previous_news) =>
          last_call'.news = "ok"]_vars

(* A news poll failed and the headlines of an earlier poll are still there *)
C8_Witness ==
  /\ last_call.news = "fail"
  /\ current_news = "n2"
  /\ previous_news = "n1"

-----------------------------------------------------------------------------
(* Properties of the scripts *)

(* C9: in RIT_Price_Plotting.py, when the news request of an iteration     *)
(* fails, the headlines displayed in that iteration are those of the last  *)
(* successful news poll; a failure never replaces a headline by "".        *)
C9_FailedNewsKeepsHeadlines ==
  [][(variant = "script" /\ last_call'.news = "fail") =>
       /\ current_news_text' = last_good_news[1]
       /\ previous_news_text' = last_good_news[2]
       /\ current_news # "" => current_news' # ""]_vars

-----------------------------------------------------------------------------
(* Properties of build_candles_from_history *)

(* The reference fold of scalar rows at granularity g: one sample after    *)
(* the fold of the samples before it.                                      *)
RECURSIVE ReferenceFold(_, _)
ReferenceFold(rows, g) ==
  IF rows = <<>> THEN <<>>
  ELSE
    LET before == ReferenceFold(SubSeq(rows, 1, Len(rows) - 1), g)
        sample == rows[Len(rows)]
        b      == CHOOSE q \in 0..sample.tick :
                    q * g <= sample.tick /\ sample.tick < (q + 1) * g
        p      == sample.price
        n      == Len(before)
    IN  IF n = 0 \/ before[n].bucket # b
        THEN Append(before, [bucket |-> b, start_tick |-> b * g,
                             open |-> p, high |-> p, low |-> p, close |-> p])
        ELSE [before EXCEPT
                ![n].high  = IF p > before[n].high THEN p ELSE before[n].high,
                ![n].low   = IF p < before[n].low THEN p ELSE before[n].low,
                ![n].close = p]

ExampleCandles ==
  << [bucket |-> 0, start_tick |-> 0, open |-> 10, high |-> 12, low |-> 9, close |-> 9],
     [bucket |-> 1, start_tick |-> 10, open |-> 15, high |-> 15, low |-> 15, close |-> 15],
     [bucket |-> 2, start_tick |-> 20, open |-> 15, high |-> 15, low |-> 15, close |-> 15] >>

(* C10: for scalar rows sorted ascending by tick and a granularity g >= 1, *)
(* build_candles_from_history returns the reference fold; ticks            *)
(* 0, 3, 9, 11, 21 with prices 10, 12, 9, 15, 15 and g = 10 give the three  *)
(* candles of the example.                                                 *)
C10_BuildIsReferenceFold ==
  ret_candles # None =>
    /\ ret_candles[1] = ReferenceFold(arg_rows, arg_candle_ticks)
    /\ (arg_rows = ExampleRows /\ arg_candle_ticks = 10) => ret_candles[1] = ExampleCandles

(* The example has been built *)
C10_Witness ==
  /\ ret_candles # None
  /\ arg_rows = ExampleRows
  /\ arg_candle_ticks = 10
  /\ Len(ret_candles[1]) = 3

-----------------------------------------------------------------------------
(* Properties of the candle series *)

(* low <= open <= high and low <= close <= high *)
OHLCOrdered(o, h, l, c) == l <= o /\ o <= h /\ l <= c /\ c <= h

(* A live candle whose four prices are numbers *)
IsNumeric(c) == c.open # None /\ c.high # None /\ c.low # None /\ c.close # None

(* C11: every candle has low <= open <= high and low <= close <= high: in *)
(* the live series after calls with numeric prices, and in the series     *)
(* build_candles_from_history returns for sorted scalar rows and OHLC     *)
(* rows that each satisfy the same inequalities, mixed sequences included. *)
C11_CandlesAreOrdered ==
  /\ \A i \in DOMAIN candles :
       IsNumeric(candles[i]) =>
         OHLCOrdered(candles[i].open[1], candles[i].high[1],
                     candles[i].low[1], candles[i].close[1])
  /\ ret_candles # None =>
       \A i \in DOMAIN ret_candles[1] :
         OHLCOrdered(ret_candles[1][i].open, ret_candles[1][i].high,
                     ret_candles[1][i].low, ret_candles[1][i].close)

(* One candle was built from an OHLC row followed by a scalar row that    *)
(* moved its low below its open                                           *)
C11_Witness ==
  /\ ret_candles # None
  /\ Len(arg_rows) = 2
  /\ "open" \in DOMAIN arg_rows[1]
  /\ "price" \in DOMAIN arg_rows[2]
  /\ Len(ret_candles[1]) = 1
  /\ ret_candles[1][1].low < ret_candles[1][1].open
  /\ ret_candles[1][1].low < arg_rows[1].low

StrictlyIncreasingBuckets(cs) ==
  \A i \in 1..(Len(cs) - 1) : cs[i].bucket < cs[i + 1].bucket

BucketsOf(cs) == {cs[i].bucket : i \in DOMAIN cs}

(* The ticks of the rows of an answer that carry a tick and a price *)
TicksOf(resp) ==
  LET rows == fetch_history_rows(resp) IN {rows[i].tick : i \in DOMAIN rows}

(* C12: a candle series holds exactly one candle per bucket visited, in    *)
(* strictly increasing bucket order: the live list of app.update_state,    *)
(* and the list app_v2.update_state caches after a successful history      *)
(* poll, whatever the order of the rows received.                          *)
C12_OneCandlePerBucket ==
  /\ StrictlyIncreasingBuckets(candles)
  /\ BucketsOf(candles) = visited
  /\ Len(candles) = Cardinality(visited)
  /\ \A key \in DOMAIN history_cache :
       StrictlyIncreasingBuckets(history_cache[key].candles)
  /\ last_call.hist = "ok" =>
       LET key == last_call.key
           cs  == history_cache[key].candles
           bs  == {t \div key[2] : t \in TicksOf(last_call.hist_resp[1])}
       IN  BucketsOf(cs) = bs /\ Len(cs) = Cardinality(bs)

(* The rows at ticks 11, 0, 3, 9 were received in that order and cached as *)
(* three candles of five ticks                                            *)
C12_Witness ==
  /\ last_call.hist = "ok"
  /\ last_call.hist_resp[1].kind = "dict"
  /\ last_call.key[2] = 5
  /\ Len(history_cache[last_call.key].candles) = 3

(* C13: in the live aggregator the candles list is append-only except for  *)
(* its last element: its length never decreases, a candle that is not the  *)
(* last never changes, and the bucket and open of a candle never change.   *)
C13_LiveSeriesAppendOnly ==
  [][/\ Len(candles') >= Len(candles)
     /\ \A i \in 1..(Len(candles) - 1) : candles'[i] = candles[i]
     /\ \A i \in DOMAIN candles :
          /\ candles'[i].bucket = candles[i].bucket
          /\ candles'[i].open = candles[i].open]_vars

(* A candle that was updated after it was opened is followed by another *)
C13_Witness ==
  /\ Len(candles) = 2
  /\ candles[1].close # candles[1].open
  /\ candles[1].bucket < candles[2].bucket

(* C14: in app_v2 the cached series of every key grows monotonically: its  *)
(* length never decreases from one call to the next, and every candle but  *)
(* the last is still there, unchanged, after a reconciliation.             *)
C14_CachedSeriesGrows ==
  [][variant = "app_v2" =>
       \A key \in DOMAIN history_cache :
         /\ Len(history_cache'[key].candles) >= Len(history_cache[key].candles)
         /\ \A i \in 1..(Len(history_cache[key].candles) - 1) :
              history_cache'[key].candles[i] = history_cache[key].candles[i]]_vars

(* C15: in app_v2, once finished is true and the entry of a key holds      *)
(* candles, no later update_state call for that key changes the entry,     *)
(* and make_figure draws its candles and last price.                       *)
C15_EntryFrozenAfterFinished ==
  [][(/\ variant = "app_v2"
      /\ finished
      /\ last_call'.key \in DOMAIN history_cache
      /\ history_cache[last_call'.key].candles # <<>>) =>
       /\ history_cache'[last_call'.key] = history_cache[last_call'.key]
       /\ last_call'.figure[1].candles = history_cache[last_call'.key].candles
       /\ last_call'.figure[1].last_price = history_cache[last_call'.key].last_price]_vars

(* A call that began finished, a history interval after the last history  *)
(* poll, for a key with cached candles: the figure shows them             *)
C15_Witness ==
  /\ variant = "app_v2"
  /\ finished
  /\ last_call.fin_before
  /\ last_call.hist = "skip"
  /\ clock - last_hist_poll >= HIST_POLL_INTERVAL
  /\ history_cache[last_call.key].candles # <<>>
  /\ last_call.figure[1].candles = history_cache[last_call.key].candles

(* C16: in app_v2, when the history fetch of a call raises, the entry of   *)
(* the key is the same before and after the call (the empty entry when the *)
(* key is new): cached candles are never replaced by fewer or none.        *)
C16_FailedFetchKeepsEntry ==
  [][last_call'.hist = "fail" =>
       /\ \A key \in DOMAIN history_cache : history_cache'[key] = history_cache[key]
       /\ last_call'.key \notin DOMAIN history_cache =>
            history_cache'[last_call'.key] = EmptyEntry]_vars

(* The history fetch raised and the candles cached before are still there *)
C16_Witness ==
  /\ last_call.hist = "fail"
  /\ history_cache[last_call.key].candles # <<>>

(* C17: in app_v2, after a successful history poll the cached candles of   *)
(* the key are build_candles_from_history of the rows just fetched,        *)
(* whatever was cached before; two successive successful polls of a key    *)
(* that receive the same rows leave the same entry.                        *)
C17_SuccessfulPollReplacesEntry ==
  [][last_call'.hist = "ok" =>
       LET key  == last_call'.key
           resp == last_call'.hist_resp[1]
       IN  /\ history_cache'[key].candles =
                build_candles_from_history(fetch_history_rows(resp), key[2])
           /\ (last_call.hist = "ok" /\ last_call.key = key
                 /\ last_call.hist_resp = last_call'.hist_resp) =>
                history_cache'[key] = history_cache[key]]_vars

(* A later successful poll left the one candle of the usable rows it      *)
(* received                                                               *)
C17_Witness ==
  /\ calls >= 2
  /\ last_call.hist = "ok"
  /\ last_call.hist_resp[1].kind = "list"
  /\ Len(history_cache[last_call.key].candles) = 1
  /\ Cardinality(DOMAIN history_cache) = 1

SetMax(S) == CHOOSE x \in S : \A y \in S : y <= x
SetMin(S) == CHOOSE x \in S : \A y \in S : x <= y

(* The candles of cs whose bucket falls into bucket b of k times the *)
(* granularity                                                       *)
GroupOf(cs, k, b) == SelectSeq(cs, LAMBDA c : c.bucket \div k = b)

(* The fold of the candles cs of granularity g into granularity k * g *)
FoldOfCandles(cs, k, g) ==
  LET bs == {cs[i].bucket \div k : i \in DOMAIN cs}
      nth(i) == CHOOSE b \in bs : Cardinality({x \in bs : x < b}) = i - 1
  IN  [i \in 1..Cardinality(bs) |->
         LET m == GroupOf(cs, k, nth(i))
         IN  [bucket |-> nth(i), start_tick |-> nth(i) * k * g,
              open  |-> m[1].open,
              high  |-> SetMax({m[j].high : j \in DOMAIN m}),
              low   |-> SetMin({m[j].low : j \in DOMAIN m}),
              close |-> m[Len(m)].close]]

(* C18: for rows sorted ascending by tick, a granularity G1 and k >= 1,    *)
(* build_candles_from_history(rows, k * G1) equals the build at k * G1 of  *)
(* the G1 candles read as OHLC rows at tick = start_tick: per bucket the   *)
(* open of its first G1 candle, the max of the highs, the min of the lows  *)
(* and the close of its last G1 candle.                                    *)
C18_GranularitiesCompose ==
  ret_coarse # None =>
    /\ ret_coarse = ret_refolded
    /\ ret_coarse[1] = FoldOfCandles(ret_candles[1], arg_k, arg_candle_ticks)

(* Two candles of granularity G1, one of them from an OHLC row, make one  *)
(* candle of granularity 2 * G1                                           *)
C18_Witness ==
  /\ ret_coarse # None
  /\ arg_k = 2
  /\ \E i \in DOMAIN arg_rows : "open" \in DOMAIN arg_rows[i]
  /\ \E i \in DOMAIN arg_rows : "price" \in DOMAIN arg_rows[i]
  /\ Len(ret_candles[1]) = 2
  /\ Len(ret_coarse[1]) = 1
  /\ ret_coarse[1][1].open # ret_coarse[1][1].close

(* C19: fetch_history_rows followed by build_candles_from_history gives    *)
(* the same candles for every order of the rows received as for the rows   *)
(* in ascending tick order, also when rows carry the same tick.            *)
C19_OrderOfRowsIrrelevant ==
  ret_candles # None /\ ret_ascending # None => ret_candles = ret_ascending

(* C20: in every live variant, when the price source answers with a null   *)
(* last price, the call or iteration creates no candle and changes no      *)
(* field of a candle.                                                      *)
C20_NullPriceChangesNoCandle ==
  [][(last_call'.price = "ok" /\ price' = None) => candles' = candles]_vars

-----------------------------------------------------------------------------
(* Failures, frames and the cache *)

(* C21: a call or iteration in which the price request raises appends no   *)
(* candle and changes no field of a candle, also before any price was      *)
(* obtained and when the elapsed time has moved into a new bucket.         *)
C21_FailedPriceChangesNoCandle ==
  [][last_call'.price = "fail" => candles' = candles]_vars

(* C25: an update_state call of app.py or app_v2.py that attempts no case  *)
(* poll leaves tick, status and finished unchanged, whatever the price,    *)
(* news and history polls of the call return.                              *)
C25_CaseStateChangesOnlyByCasePolls ==
  [][last_call'.case = "skip" =>
       tick' = tick /\ status' = status /\ finished' = finished]_vars

(* A call made less than CASE_POLL_INTERVAL after the last case poll that  *)
(* polled another feed successfully; the case is still running             *)
C25_Witness ==
  /\ last_call.case = "skip"
  /\ clock - last_case_poll < CASE_POLL_INTERVAL
  /\ last_call.price = "ok" \/ last_call.hist = "ok"
  /\ tick = TICK_LIMIT - 1
  /\ ~finished

(* C26: in app.update_state, in the call in which finished changes from    *)
(* false to true, no price poll and no news poll is made after the         *)
(* assignment and no candle is appended or modified.                       *)
C26_NothingAfterFinishedIsSet ==
  [][(variant = "app" /\ ~finished /\ finished') =>
       /\ last_call'.price = "skip"
       /\ last_call'.news = "skip"
       /\ candles' = candles
       /\ current_news' = current_news
       /\ previous_news' = previous_news]_vars

(* C28: in app_v2 every cache entry is consistent: with candles,           *)
(* last_price is the close of the last candle and last_tick_seen lies in   *)
(* the bucket of the last candle; without candles, last_price = 0.0 and    *)
(* last_tick_seen = -1.                                                    *)
C28_CacheEntryConsistent ==
  \A key \in DOMAIN history_cache :
    LET e == history_cache[key]
        n == Len(e.candles)
    IN  IF n > 0
        THEN /\ e.last_price = e.candles[n].close
             /\ e.candles[n].bucket * key[2] <= e.last_tick_seen
             /\ e.last_tick_seen < (e.candles[n].bucket + 1) * key[2]
        ELSE e.last_price = 0 /\ e.last_tick_seen = -1

(* An entry of three candles whose last row is not its first, and an      *)
(* entry whose last row is an OHLC row                                    *)
C28_Witness ==
  /\ \E key \in DOMAIN history_cache :
       /\ Len(history_cache[key].candles) = 3
       /\ history_cache[key].last_tick_seen = 11
  /\ \E key \in DOMAIN history_cache :
       /\ Len(history_cache[key].candles) = 1
       /\ history_cache[key].last_tick_seen = 4
       /\ history_cache[key].last_price = 11

(* C29: in app_v2 an update_state call for a key never adds, removes or    *)
(* modifies the cache entry of another key, whether its own history poll   *)
(* succeeds, fails or is skipped.                                          *)
C29_OtherKeysUntouched ==
  [][variant = "app_v2" =>
       /\ DOMAIN history_cache' = DOMAIN history_cache \cup {last_call'.key}
       /\ \A k \in DOMAIN history_cache \ {last_call'.key} :
            history_cache'[k] = history_cache[k]]_vars

(* Two keys hold different candles after a successful poll for one of them *)
C29_Witness ==
  /\ last_call.hist = "ok"
  /\ Cardinality(DOMAIN history_cache) = 2
  /\ \A k \in DOMAIN history_cache : history_cache[k].candles # <<>>
  /\ \E k \in DOMAIN history_cache :
       history_cache[k].candles # history_cache[last_call.key].candles

-----------------------------------------------------------------------------
(* The loop of the scripts *)

(* C23: the loop of the scripts stops exactly when a case poll observes    *)
(* tick >= TICK_LIMIT or a status that is not active/running, or when a    *)
(* case poll raises; a failed price poll or a null price does not stop it, *)
(* every iteration starts with a case poll, and after the loop has stopped *)
(* nothing is polled and no candle changes.                                *)
C23_LoopStopsOnCaseOnly ==
  [][/\ running
     /\ last_call'.case \in {"ok", "fail"}
     /\ running' <=> /\ last_call'.case = "ok"
                     /\ tick' < TICK_LIMIT
                     /\ IsActiveOrRunning(status')
     /\ (last_call'.price = "fail" \/ (last_call'.price = "ok" /\ price' = None)) =>
          running' /\ candles' = candles]_vars

(* The loop went on after a failed price poll and has then stopped on a   *)
(* case poll that found the case stopped below the tick limit             *)
C23_Witness ==
  /\ ~running
  /\ calls >= 2
  /\ last_call.case = "ok"
  /\ tick < TICK_LIMIT
  /\ status = StrSTOPPED
  /\ price = Some(0)

-----------------------------------------------------------------------------
(* Properties of fetch_history_rows *)

(* Some alias of the list is in the row and holds a number *)
HasParsable(d, aliases) ==
  \E i \in DOMAIN aliases : aliases[i] \in DOMAIN d /\ d[aliases[i]].t = "num"

(* The number under the first alias of the list that holds a number *)
FirstParsable(d, aliases) ==
  LET i == CHOOSE j \in DOMAIN aliases :
             /\ aliases[j] \in DOMAIN d /\ d[aliases[j]].t = "num"
             /\ \A h \in 1..(j - 1) : ~(aliases[h] \in DOMAIN d /\ d[aliases[h]].t = "num")
  IN  d[aliases[i]].v

(* Not a record, no position that is a number, or no price that is a number *)
Malformed(row) ==
  \/ ~row.isdict
  \/ ~HasParsable(row.d, PositionAliases)
  \/ ~HasParsable(row.d, PriceAliases)

(* A record with a position and a price in which every value is a number *)
WellFormed(row) ==
  /\ row.isdict
  /\ HasParsable(row.d, PositionAliases)
  /\ HasParsable(row.d, PriceAliases)
  /\ \A k \in DOMAIN row.d : row.d[k].t = "num"

(* The row a well-formed raw row stands for *)
Expected(row) ==
  IF {"open", "high", "low", "close"} \subseteq DOMAIN row.d
  THEN [tick |-> FirstParsable(row.d, PositionAliases), open |-> row.d.open.v,
        high |-> row.d.high.v, low |-> row.d.low.v, close |-> row.d.close.v]
  ELSE [tick |-> FirstParsable(row.d, PositionAliases),
        price |-> FirstParsable(row.d, PriceAliases)]

(* How often x occurs in the sequence xs *)
Occurrences(xs, x) == Cardinality({i \in DOMAIN xs : xs[i] = x})

C27_FirstParsableAliasIsUsed ==
  (/\ ret_rows # None
   /\ Len(arg_data) = 1
   /\ arg_data[1].isdict
   /\ HasParsable(arg_data[1].d, PositionAliases)
   /\ HasParsable(arg_data[1].d, PriceAliases)) =>
    /\ Len(ret_rows[1]) = 1
    /\ ret_rows[1][1].tick = FirstParsable(arg_data[1].d, PositionAliases)
    /\ RowClose(ret_rows[1][1]) = Some(FirstParsable(arg_data[1].d, PriceAliases))

-----------------------------------------------------------------------------
(* Requests served by threads *)

(* C24: when /chart.png requests are handled concurrently, make_figure     *)
(* reads only fully committed values: never a candle to which only part of *)
(* the high/low/close update of one sample has been applied.               *)
C24_FigureSeesCommittedCandles ==
  seen # None => seen[1] \in commits

====
